---- MODULE Spec2Model ----
(***************************************************************************)
(* Text2Query (src/app.py): a Streamlit page that connects to MySQL, lets  *)
(* the user pick a table, turns a question into SQL (fast path or LLM),    *)
(* shows the SQL in an editor and runs it behind a keyword safety gate.    *)
(*                                                                         *)
(* Texts are TLA+ strings handled character by character (Len, SubSeq,     *)
(* \o), so that trimming, lower-casing, substring search and the regular   *)
(* expressions of the source are computed, not assumed.                    *)
(***************************************************************************)
EXTENDS Integers, Sequences, FiniteSets, TLC

(***************************************************************************)
(* Bounds of the model.                                                    *)
(***************************************************************************)
\* number of fragments concatenated into an input of safe_sql_check
MaxGateFrags == 3
\* number of fragments concatenated into an input of extract_sql
MaxRawFrags == 3

(***************************************************************************)
(* Python string primitives.                                               *)
(***************************************************************************)
UpperChars == "ABCDEFGHIJKLMNOPQRSTUVWXYZ"
LowerChars == "abcdefghijklmnopqrstuvwxyz"
DigitChars == "0123456789"
\* the backquote character (a lone backquote cannot be written in a string literal)
BT == SubSeq("`'", 1, 1)
\* the markdown fence marker
Fence == BT \o BT \o BT

CharAt(s, i) == SubSeq(s, i, i)

\* position of the one-character string c in alphabet, 0 when absent
IndexIn(alphabet, c) ==
    IF \E i \in 1..Len(alphabet) : CharAt(alphabet, i) = c
    THEN CHOOSE i \in 1..Len(alphabet) : CharAt(alphabet, i) = c
    ELSE 0

UpperSet == { CharAt(UpperChars, i) : i \in 1..Len(UpperChars) }
LowerSet == { CharAt(LowerChars, i) : i \in 1..Len(LowerChars) }
DigitSet == { CharAt(DigitChars, i) : i \in 1..Len(DigitChars) }
LowerOf == [c \in UpperSet |-> CharAt(LowerChars, IndexIn(UpperChars, c))]
UpperOf == [c \in LowerSet |-> CharAt(UpperChars, IndexIn(LowerChars, c))]
DigitValue == [c \in DigitSet |-> IndexIn(DigitChars, c) - 1]

LowerChar(c) == IF c \in UpperSet THEN LowerOf[c] ELSE c

UpperChar(c) == IF c \in LowerSet THEN UpperOf[c] ELSE c

\* str.lower()
RECURSIVE lower(_)
lower(s) == IF s = "" THEN "" ELSE LowerChar(CharAt(s, 1)) \o lower(SubSeq(s, 2, Len(s)))

\* str.upper()
RECURSIVE upper(_)
upper(s) == IF s = "" THEN "" ELSE UpperChar(CharAt(s, 1)) \o upper(SubSeq(s, 2, Len(s)))

\* the characters str.strip() removes and the regular expression class \s matches
IsSpace(c) == c \in {" ", "\n", "\t"}

IsDigit(c) == c \in DigitSet

RECURSIVE lstrip(_)
lstrip(s) == IF s # "" /\ IsSpace(CharAt(s, 1)) THEN lstrip(SubSeq(s, 2, Len(s))) ELSE s

RECURSIVE rstrip(_)
rstrip(s) == IF s # "" /\ IsSpace(CharAt(s, Len(s))) THEN rstrip(SubSeq(s, 1, Len(s) - 1)) ELSE s

\* str.strip()
strip(s) == rstrip(lstrip(s))

\* str.startswith / str.endswith
startswith(s, p) == Len(s) >= Len(p) /\ SubSeq(s, 1, Len(p)) = p
endswith(s, p) == Len(s) >= Len(p) /\ SubSeq(s, Len(s) - Len(p) + 1, Len(s)) = p

\* p at position i of s
MatchAt(s, p, i) == i >= 1 /\ i + Len(p) - 1 <= Len(s) /\ SubSeq(s, i, i + Len(p) - 1) = p

\* first position >= from where p occurs in s, 0 when there is none
RECURSIVE Find(_, _, _)
Find(s, p, from) ==
    IF from + Len(p) - 1 > Len(s) THEN 0
    ELSE IF MatchAt(s, p, from) THEN from
    ELSE Find(s, p, from + 1)

\* the Python test  p in s  (p is not empty)
Contains(s, p) == Find(s, p, 1) # 0

\* first position >= from where p occurs in s ignoring case (re.IGNORECASE)
FindNoCase(s, p, from) == Find(lower(s), lower(p), from)

\* end of the longest run of characters satisfying the class starting at i
\* (i - 1 when s[i] is not in the class)
RECURSIVE SpaceRunEnd(_, _)
SpaceRunEnd(s, i) ==
    IF i <= Len(s) /\ IsSpace(CharAt(s, i)) THEN SpaceRunEnd(s, i + 1) ELSE i - 1

RECURSIVE DigitRunEnd(_, _)
DigitRunEnd(s, i) ==
    IF i <= Len(s) /\ IsDigit(CharAt(s, i)) THEN DigitRunEnd(s, i + 1) ELSE i - 1

\* int(digits)
RECURSIVE int(_)
int(d) ==
    IF d = "" THEN 0
    ELSE 10 * int(SubSeq(d, 1, Len(d) - 1)) + DigitValue[CharAt(d, Len(d))]

\* str(n) for n >= 0, as an f-string renders it
RECURSIVE str(_)
str(n) ==
    IF n < 10 THEN CharAt(DigitChars, n + 1)
    ELSE str(n \div 10) \o CharAt(DigitChars, (n % 10) + 1)

\* re.sub(marker + r'\s*', '', s): every occurrence of marker, with the white
\* space that follows it, removed, scanning left to right
RECURSIVE ReSubMarker(_, _)
ReSubMarker(s, marker) ==
    IF s = "" THEN ""
    ELSE IF MatchAt(s, marker, 1)
         THEN ReSubMarker(SubSeq(s, SpaceRunEnd(s, Len(marker) + 1) + 1, Len(s)), marker)
         ELSE CharAt(s, 1) \o ReSubMarker(SubSeq(s, 2, Len(s)), marker)

(***************************************************************************)
(* extract_sql (src/app.py 243-266).                                       *)
(***************************************************************************)
\* lines 250-251: both fence markers removed, the longer one first
without_fences(raw0) == ReSubMarker(ReSubMarker(raw0, Fence \o "sql"), Fence)

\* m.group(1) for a SELECT at position i: up to the first ';' after it, at j
\* (line 254), or everything after it when there is no ';' (j = 0, line 259)
select_match(raw, i, j) == IF j # 0 THEN SubSeq(raw, i, j) ELSE SubSeq(raw, i, Len(raw))

\* lines 254-261: the candidate for the leftmost SELECT of raw, at position i
\* (i = 0: raw has no SELECT and candidate stays "")
candidate_at(raw, i) ==
    IF i = 0 THEN "" ELSE strip(select_match(raw, i, Find(raw, ";", i + 6)))

\* lines 254-261; re.IGNORECASE makes the search blind to case
search_select(raw) == candidate_at(raw, FindNoCase(raw, "SELECT", 1))

\* lines 263-264
closed(candidate) ==
    IF candidate # "" /\ ~endswith(candidate, ";") THEN candidate \o ";" ELSE candidate

\* line 266
returned(candidate) == IF candidate # "" THEN strip(candidate) ELSE ""

\* extract_sql with the search for SELECT made case-sensitive
extract_sql_case_sensitive(raw0) ==
    returned(closed(candidate_at(without_fences(raw0),
                                 Find(without_fences(raw0), "SELECT", 1))))

\* extract_sql without the ';' appended to an open candidate
extract_sql_unclosed(raw0) == returned(search_select(without_fences(raw0)))

extract_sql(raw0) == returned(closed(search_select(without_fences(raw0))))

(***************************************************************************)
(* safe_sql_check (src/app.py 297-307): <<ok, reason>>.                    *)
(***************************************************************************)
forbidden == <<"drop", "delete", "update", "insert", "alter", "truncate", "merge", "exec", "call">>

\* the loop without its early return: the last keyword found is reported
RECURSIVE forbidden_loop_no_return(_, _)
forbidden_loop_no_return(s, k) ==
    IF k > Len(forbidden) THEN <<TRUE, "">>
    ELSE LET rest == forbidden_loop_no_return(s, k + 1)
         IN  IF ~rest[1] THEN rest
             ELSE IF Contains(s, forbidden[k])
                  THEN <<FALSE, "Forbidden keyword '" \o forbidden[k] \o "'.">>
                  ELSE rest

\* the loop over forbidden from index k on, on the lower-cased trimmed text
RECURSIVE forbidden_loop(_, _)
forbidden_loop(s, k) ==
    IF k > Len(forbidden) THEN <<TRUE, "">>
    ELSE IF Contains(s, forbidden[k])
         THEN <<FALSE, "Forbidden keyword '" \o forbidden[k] \o "'.">>
         ELSE forbidden_loop(s, k + 1)

\* safe_sql_check without the denylist
safe_sql_check_select_only(sql) ==
    IF strip(sql) = "" THEN <<FALSE, "SQL empty.">>
    ELSE IF ~startswith(strip(lower(sql)), "select") THEN <<FALSE, "Only SELECT allowed.">>
    ELSE <<TRUE, "">>

\* safe_sql_check with the denylist tried before the test for select
safe_sql_check_denylist_first(sql) ==
    IF strip(sql) = "" THEN <<FALSE, "SQL empty.">>
    ELSE LET s == strip(lower(sql))
         IN  IF ~forbidden_loop(s, 1)[1] THEN forbidden_loop(s, 1)
             ELSE IF ~startswith(s, "select") THEN <<FALSE, "Only SELECT allowed.">>
             ELSE <<TRUE, "">>

safe_sql_check(sql) ==
    IF strip(sql) = "" THEN <<FALSE, "SQL empty.">>
    ELSE LET s == strip(lower(sql))
         IN  IF ~startswith(s, "select") THEN <<FALSE, "Only SELECT allowed.">>
             ELSE forbidden_loop(s, 1)

(***************************************************************************)
(* Optional values: Python's None is the empty tuple, a value v is <<v>>.  *)
(***************************************************************************)
None == <<>>
Some(v) == <<v>>

(***************************************************************************)
(* detect_top_n (src/app.py 427-432): None, or Some(int of the digits).    *)
(***************************************************************************)
\* position after the word top or first when one of them starts at i, else 0
TopWordEnd(q, i) ==
    IF MatchAt(q, "top", i) THEN i + 3
    ELSE IF MatchAt(q, "first", i) THEN i + 5
    ELSE 0

\* \s+(\d+) matches at position k of q, the white space ending at position e
SpacesDigitsAt(q, k, e) == e >= k /\ DigitRunEnd(q, e + 1) >= e + 1

\* (top|first)\s+(\d+) matches at position i of q, the word ending before k
WordSpacesDigitsAt(q, k) == k # 0 /\ SpacesDigitsAt(q, k, SpaceRunEnd(q, k))

TopNMatchAt(q, i) == WordSpacesDigitsAt(q, TopWordEnd(q, i))

\* re.search: the leftmost position >= i where the pattern matches, 0 if none
RECURSIVE TopNSearch(_, _)
TopNSearch(q, i) ==
    IF i > Len(q) THEN 0
    ELSE IF TopNMatchAt(q, i) THEN i
    ELSE TopNSearch(q, i + 1)

\* int(m.group(2)) for the digits of q that start at position d
group_2(q, d) == int(SubSeq(q, d, DigitRunEnd(q, d)))

\* lines 430-432 for the position i of the match (0: no match)
top_n_match(q, i) ==
    IF i # 0 THEN Some(group_2(q, SpaceRunEnd(q, TopWordEnd(q, i)) + 1)) ELSE None

\* line 429
top_n_search(q) == top_n_match(q, TopNSearch(q, 1))

detect_top_n(q0) == top_n_search(strip(lower(q0)))

(***************************************************************************)
(* pretty_sql (src/app.py 147-151): sqlparse.format(sql, reindent=True,    *)
(* keyword_case='upper') on one statement of words separated by white      *)
(* space: white space is collapsed, keywords are upper-cased and FROM,     *)
(* WHERE and LIMIT start a new line.                                       *)
(***************************************************************************)
SqlKeywords == {"select", "from", "where", "limit"}
SqlBreakWords == {"from", "where", "limit"}

\* end of the run of characters other than white space starting at i
RECURSIVE WordEnd(_, _)
WordEnd(s, i) ==
    IF i <= Len(s) /\ ~IsSpace(CharAt(s, i)) THEN WordEnd(s, i + 1) ELSE i - 1

\* the words of s, split at white space
RECURSIVE SqlWords(_)
SqlWords(s) ==
    LET t == lstrip(s)
    IN  IF t = "" THEN <<>>
        ELSE LET e == WordEnd(t, 1)
             IN  <<SubSeq(t, 1, e)>> \o SqlWords(SubSeq(t, e + 1, Len(t)))

\* a word without the ';' that may close it
WordCore(w) == IF endswith(w, ";") THEN SubSeq(w, 1, Len(w) - 1) ELSE w

PrettyWord(w) ==
    IF lower(WordCore(w)) \in SqlKeywords
    THEN upper(WordCore(w)) \o SubSeq(w, Len(WordCore(w)) + 1, Len(w))
    ELSE w

RECURSIVE PrettyJoin(_, _)
PrettyJoin(ws, k) ==
    IF k > Len(ws) THEN ""
    ELSE (IF k = 1 THEN ""
          ELSE IF lower(WordCore(ws[k])) \in SqlBreakWords THEN "\n" ELSE " ")
         \o PrettyWord(ws[k]) \o PrettyJoin(ws, k + 1)

pretty_sql(sql) == PrettyJoin(SqlWords(sql), 1)

(***************************************************************************)
(* mysql_error_to_message (src/app.py 61-75) and the f-string queries.     *)
(***************************************************************************)
mysql_error_to_message(errno, msg, host, port, db) ==
    IF errno = 1045 THEN "Access denied (1045). Invalid username/password."
    ELSE IF errno = 1049 THEN "Unknown database '" \o db \o "' (1049)."
    ELSE IF errno = 2003 THEN "Cannot connect to MySQL at " \o host \o ":" \o port \o " (2003)."
    ELSE IF errno = 2005 THEN "Unknown MySQL host '" \o host \o "' (2005)."
    ELSE msg

\* the direct query of the fast path (line 445)
top_n_sql(table, n) == "SELECT * FROM " \o BT \o table \o BT \o " LIMIT " \o str(n) \o ";"

\* the fallback query with the table name left unquoted
stub_sql_unquoted(table) == "SELECT * FROM " \o table \o " LIMIT 100;"

\* the fallback query (lines 469 and 474)
stub_sql(table) == "SELECT * FROM " \o BT \o table \o BT \o " LIMIT 100;"

(***************************************************************************)
(* The environment: what the user types and what MySQL and the LLM answer. *)
(***************************************************************************)
\* the connection form (lines 330-336)
Forms == { [host |-> "localhost", port |-> "3306", database |-> d,
            username |-> "root", password |-> "pw"] : d \in {"shop"} }

\* answers of SHOW TABLES
TableLists == { <<>>, <<"orders">>, <<"orders", "updates">> }

\* error numbers a failed mysql.connector.connect reports; 1040 stands for
\* the ones mysql_error_to_message passes through
ConnErrnos == {1045, 1049, 2003, 2005, 1040}

\* attempt_connect (lines 78-99) for an answer of the server: <<ok, msg, tables>>
attempt_connect(form, answer) ==
    IF answer.ok THEN <<TRUE, "", answer.tables>>
    ELSE <<FALSE,
           mysql_error_to_message(answer.errno, "1040 (08004): Too many connections",
                                  form.host, form.port, form.database),
           <<>>>>

ConnectAnswers ==
    { [ok |-> TRUE, tables |-> t, errno |-> 0] : t \in TableLists }
    \cup { [ok |-> FALSE, tables |-> <<>>, errno |-> e] : e \in ConnErrnos }

\* questions typed into the question box
Questions == { "show me the top 7 rows", "first 0", "how many orders", "  " }

\* texts typed into the SQL editor by hand
EditTexts == { "drop table orders;", " select * from orders ;\n",
               "select 1; delete from orders" }

\* answers of the generation endpoint: a transport failure, or a response text
LlmAnswers ==
    { [ok |-> FALSE, response |-> ""] }
    \cup { [ok |-> TRUE, response |-> r] :
             r \in { Fence \o "sql\nselect * from orders limit 5;\n" \o Fence,
                     "I cannot answer that.",
                     "SELECT id FROM updates where id = 1" } }

\* answers of the database to the vetted query: rows, or an error text
RunAnswers == { [ok |-> TRUE, err |-> ""],
                [ok |-> FALSE, err |-> "1146 (42S02): Table 'shop.order' doesn't exist"] }

(***************************************************************************)
(* The text functions are evaluated once on the texts this environment can *)
(* produce, and the handlers look the results up.                          *)
(***************************************************************************)
TableNames == UNION { { t[i] : i \in 1..Len(t) } : t \in TableLists }

\* raw = str(data[k]).strip(), or str(data) when that is empty (lines 283-289)
raw_text(text) == IF text = "" THEN "{'response': ''}" ELSE text
raw_output(answer) == raw_text(strip(answer.response))

\* the values a table holds
Values(table) == { table[x] : x \in DOMAIN table }

detect_top_n_table == [q \in Questions |-> detect_top_n(q)]
top_n(q) == detect_top_n_table[q]

extract_sql_table == [raw \in { raw_output(a) : a \in LlmAnswers } |-> extract_sql(raw)]
extracted(raw) == extract_sql_table[raw]

\* the statements the handlers hand to pretty_sql (lines 445, 464 and 469)
TopNStatements(ns) == { top_n_sql(t, n[1]) : t \in TableNames, n \in ns \ {None} }
KnownStatements ==
    { stub_sql(t) : t \in TableNames }
    \cup Values(extract_sql_table)
    \cup TopNStatements(Values(detect_top_n_table))

pretty_sql_table == [sql \in KnownStatements |-> pretty_sql(sql)]
pretty(sql) == pretty_sql_table[sql]

\* the editor after trimming (line 509): empty, typed by hand, or generated
KnownEditorTexts ==
    {""} \cup { strip(e) : e \in EditTexts \cup Values(pretty_sql_table) }

safe_sql_check_table == [sql \in KnownEditorTexts |-> safe_sql_check(sql)]
checked(sql) == safe_sql_check_table[sql]

(***************************************************************************)
(* call_llm (src/app.py 269-294): <<raw, sql>> for an answer of the        *)
(* endpoint.                                                               *)
(***************************************************************************)
call_llm(table, question, retry_error, answer) ==
    IF ~answer.ok THEN <<"[LLM ERROR: connection refused]", "">>
    ELSE <<raw_output(answer), extracted(raw_output(answer))>>

\* run_sql (src/app.py 154-168): <<df, err>>; without credentials the
\* subscript of None raises inside the try and the error text is returned
run_sql(creds, sql, answer) ==
    IF creds = None THEN <<None, "'NoneType' object is not subscriptable">>
    ELSE IF answer.ok THEN <<Some([query |-> sql]), "">>
    ELSE <<None, answer.err>>

(***************************************************************************)
(* The session state (src/app.py 32-47), the select box, and the record of *)
(* what the last rerun of the script did.                                  *)
(***************************************************************************)
VARIABLES
    connection_status,  \* None, Some("success") or Some("error")
    error_message,
    db_credentials,     \* None or Some(form)
    tables,
    selected_table,     \* None or Some(table name)
    generated_sql,
    last_df,
    last_raw_llm,
    sql_preview,        \* the content of the SQL editor (key "sql_preview")
    last_error,
    last_question,
    sel_widget,         \* the value the select box of line 369 holds
    act,                \* the user action of the last rerun
    asked,              \* the question box when Generate was clicked in it, else ""
    gate_call,          \* the safe_sql_check calls of the last rerun
    run_call,           \* the run_sql calls of the last rerun
    llm_call,           \* the call_llm calls of the last rerun
    hist_run,           \* None, or Some(error stored by the most recent Run Query)
    hist_gen_since,     \* a Generate with a question happened since that Run Query
    hist_question,      \* None, or Some(question of the last such Generate)
    fn_arg,             \* argument of the function under test (function specs)
    fn_ret              \* None, or Some(its result)

session == <<connection_status, error_message, db_credentials, tables, selected_table,
             generated_sql, last_df, last_raw_llm, sql_preview, last_error, last_question>>
conn_vars == <<connection_status, error_message, db_credentials, tables>>
gen_vars == <<generated_sql, last_raw_llm, sql_preview>>
hist_vars == <<hist_run, hist_gen_since, hist_question>>
fn_vars == <<fn_arg, fn_ret>>
vars == <<session, sel_widget, act, asked, gate_call, run_call, llm_call, hist_vars, fn_vars>>

\* state_defaults (lines 32-44)
state_defaults ==
    /\ connection_status = None
    /\ error_message = ""
    /\ db_credentials = None
    /\ tables = <<>>
    /\ selected_table = None
    /\ generated_sql = ""
    /\ last_df = None
    /\ last_raw_llm = ""
    /\ sql_preview = ""
    /\ last_error = ""
    /\ last_question = ""

NoCalls ==
    /\ act = "start"
    /\ asked = ""
    /\ gate_call = <<>>
    /\ run_call = <<>>
    /\ llm_call = <<>>
    /\ hist_run = None
    /\ hist_gen_since = FALSE
    /\ hist_question = None

Init ==
    /\ state_defaults
    /\ sel_widget = "--"
    /\ NoCalls
    /\ fn_arg = ""
    /\ fn_ret = None

(***************************************************************************)
(* One rerun of the script.  Streamlit runs app.py from top to bottom on   *)
(* every user action, with at most one button reading True.  The blocks of *)
(* the script are functions on a record s of the session state, the select *)
(* box value and the calls made so far in this rerun.                      *)
(***************************************************************************)
Current ==
    [connection_status |-> connection_status, error_message |-> error_message,
     db_credentials |-> db_credentials, tables |-> tables,
     selected_table |-> selected_table, generated_sql |-> generated_sql,
     last_df |-> last_df, last_raw_llm |-> last_raw_llm, sql_preview |-> sql_preview,
     last_error |-> last_error, last_question |-> last_question,
     sel_widget |-> sel_widget,
     gate_call |-> <<>>, run_call |-> <<>>, llm_call |-> <<>>]

\* the select box of line 369 is drawn
selectbox_rendered(s) == s.connection_status = Some("success") /\ s.tables # <<>>

\* if connect_btn (lines 341-359)
connect_block(s, connect_btn, form, answer) ==
    IF ~connect_btn THEN s
    ELSE LET r == attempt_connect(form, answer)
         IN  IF r[1]
             THEN [s EXCEPT !.connection_status = Some("success"),
                            !.error_message = "",
                            !.db_credentials = Some(form),
                            !.tables = r[3],
                            !.selected_table = None]
             ELSE [s EXCEPT !.connection_status = Some("error"),
                            !.error_message = r[2],
                            !.tables = <<>>,
                            !.selected_table = None]

\* The value st.selectbox returns in this rerun.  The widget has no key: it
\* is identified by its label and options, so it keeps the value chosen in
\* the browser while it is drawn with the same options as in the previous
\* rerun (before), and starts again at "--" otherwise.
selectbox_value(before, s) ==
    IF selectbox_rendered(before) /\ selectbox_rendered(s) /\ before.tables = s.tables
    THEN s.sel_widget
    ELSE "--"

\* Step 2 (lines 367-375)
selection_block(before, s) ==
    LET sel == selectbox_value(before, s)
    IN  IF selectbox_rendered(s) /\ sel # "--"
        THEN [s EXCEPT !.sel_widget = sel, !.selected_table = Some(sel)]
        ELSE [s EXCEPT !.sel_widget = sel]

\* line 444: if n and st.session_state.selected_table
top_n_detected(n, table) == n # None /\ n[1] # 0 /\ table # None

\* lines 439-440 without the reset of last_error
question_stored_error_kept(s, user_q) == [s EXCEPT !.last_question = user_q]

\* lines 439-440: the question is stored and the stored error cleared
question_stored(s, user_q) == [s EXCEPT !.last_question = user_q, !.last_error = ""]

\* the entry call_llm leaves in the record of calls (table as the session
\* holds it: None or Some(name))
LlmCall(table, question, retry_error, r) ==
    [table |-> table, question |-> question, retry_error |-> retry_error,
     raw |-> r[1], sql |-> r[2]]

\* the assignments to generated_sql and to the editor (e.g. lines 446-447)
sql_stored(s, sql) == [s EXCEPT !.generated_sql = sql, !.sql_preview = sql]

\* last_raw_llm = raw (lines 461 and 492), with the call r answered recorded
llm_called(s, question, retry_error, r) ==
    [s EXCEPT !.last_raw_llm = r[1],
              !.llm_call = Append(s.llm_call,
                                  LlmCall(s.selected_table, question, retry_error, r))]

\* if sql and sql.strip() (lines 463 and 494)
has_sql(sql) == sql # "" /\ strip(sql) # ""

\* lines 463-472
generate_result(s, sql) ==
    IF has_sql(sql) THEN sql_stored(s, pretty(sql))
    ELSE sql_stored(s, pretty(stub_sql(s.selected_table[1])))

\* lines 443-472 for the value n of detect_top_n
generate_paths(s, user_q, n, answer) ==
    IF top_n_detected(n, s.selected_table)
    THEN [sql_stored(s, pretty(top_n_sql(s.selected_table[1], n[1])))
             EXCEPT !.last_raw_llm = "Bypass LLM - top N detected."]
    ELSE generate_result(
             llm_called(s, user_q, "", call_llm(s.selected_table, user_q, "", answer)),
             call_llm(s.selected_table, user_q, "", answer)[2])

\* if gen_btn (lines 435-477); the button is drawn disabled without a table
\* (lines 413-416)
generate_block(s, gen_click, user_q, answer) ==
    IF ~(gen_click /\ s.selected_table # None) THEN s
    ELSE IF strip(user_q) = "" THEN s
    ELSE generate_paths(question_stored(s, user_q), user_q, top_n(user_q), answer)

\* the Retry button reads True only when clicked, and it is drawn enabled
\* only with a table selected and an error stored (lines 413-424)
retry_button(s, retry_click) ==
    retry_click /\ s.selected_table # None /\ s.last_error # ""

\* line 480 without the test of the button
retry_condition_any_rerun(retry_btn, error, question) == error # "" /\ question # ""

\* line 480: if retry_btn and last_error and last_question
retry_condition(retry_btn, error, question) == retry_btn /\ error # "" /\ question # ""

\* lines 494-499
retry_result(s, sql) == IF has_sql(sql) THEN sql_stored(s, pretty(sql)) ELSE s

\* lines 480-499
retry_block(s, retry_click, answer) ==
    IF ~retry_condition(retry_button(s, retry_click), s.last_error, s.last_question) THEN s
    ELSE retry_result(
             llm_called(s, s.last_question, s.last_error,
                        call_llm(s.selected_table, s.last_question, s.last_error, answer)),
             call_llm(s.selected_table, s.last_question, s.last_error, answer)[2])

\* the call of safe_sql_check (line 510) recorded
gate_called(s, sql, chk) ==
    [s EXCEPT !.gate_call = Append(s.gate_call,
                                   [sql |-> sql, ok |-> chk[1], reason |-> chk[2]])]

\* lines 517-523 for the answer r of run_sql
run_result(s, sql, r) ==
    [s EXCEPT !.run_call = Append(s.run_call, [sql |-> sql, err |-> r[2]]),
              !.last_error = IF r[2] # "" THEN r[2] ELSE ""]

\* lines 511-523 for the verdict chk of safe_sql_check
run_checked(s, sql, chk, answer) ==
    IF ~chk[1] THEN [gate_called(s, sql, chk) EXCEPT !.last_error = chk[2]]
    ELSE run_result(gate_called(s, sql, chk), sql, run_sql(s.db_credentials, sql, answer))

\* lines 509-510
run_editor(s, sql, answer) == run_checked(s, sql, checked(sql), answer)

\* if run_btn (lines 508-531)
run_block(s, run_btn, answer) ==
    IF ~run_btn THEN s ELSE run_editor(s, strip(s.sql_preview), answer)

\* What the browser sends with the rerun: a new choice in the select box
\* (line 369), or a hand edit of the SQL editor, whose text Streamlit stores
\* under the widget's key sql_preview (line 503) before the script runs.
widget_input(s, btn, choice, text) ==
    IF btn = "select" THEN [s EXCEPT !.sel_widget = choice]
    ELSE IF btn = "edit" THEN [s EXCEPT !.sql_preview = text]
    ELSE s

\* the script from top to bottom for one user action
Script(btn, form, conn_answer, choice, text, user_q, llm_answer, run_answer) ==
    LET s0 == widget_input(Current, btn, choice, text)
        s1 == connect_block(s0, btn = "connect", form, conn_answer)
        s2 == selection_block(s0, s1)
        s3 == generate_block(s2, btn = "generate", user_q, llm_answer)
        s4 == retry_block(s3, btn = "retry", llm_answer)
    IN  run_block(s4, btn = "run", run_answer)

\* values for the inputs an action does not use
NoForm == CHOOSE f \in Forms : f.database = "shop"
NoConnAnswer == [ok |-> FALSE, tables |-> <<>>, errno |-> 1040]
NoLlmAnswer == [ok |-> FALSE, response |-> ""]
NoRunAnswer == [ok |-> FALSE, err |-> "no answer"]

\* the error the Run Query of this rerun stored: the gate's reason, or the
\* error text of run_sql ("" when the query ran)
RunReason(s) ==
    IF ~s.gate_call[1].ok THEN s.gate_call[1].reason ELSE s.run_call[1].err

\* the state after the rerun, and the history of Run Query and Generate
Step(btn, form, conn_answer, choice, text, user_q, llm_answer, run_answer) ==
    \E s \in {Script(btn, form, conn_answer, choice, text, user_q, llm_answer, run_answer)} :
    LET stored == btn = "generate" /\ strip(user_q) # ""
    IN  /\ connection_status' = s.connection_status
        /\ error_message' = s.error_message
        /\ db_credentials' = s.db_credentials
        /\ tables' = s.tables
        /\ selected_table' = s.selected_table
        /\ generated_sql' = s.generated_sql
        /\ last_df' = s.last_df
        /\ last_raw_llm' = s.last_raw_llm
        /\ sql_preview' = s.sql_preview
        /\ last_error' = s.last_error
        /\ last_question' = s.last_question
        /\ sel_widget' = s.sel_widget
        /\ gate_call' = s.gate_call
        /\ run_call' = s.run_call
        /\ llm_call' = s.llm_call
        /\ act' = btn
        /\ asked' = IF btn = "generate" THEN user_q ELSE ""
        /\ hist_run' = IF btn = "run" THEN Some(RunReason(s)) ELSE hist_run
        /\ hist_gen_since' = IF btn = "run" THEN FALSE
                             ELSE IF stored THEN TRUE ELSE hist_gen_since
        /\ hist_question' = IF stored THEN Some(user_q) ELSE hist_question
        /\ UNCHANGED fn_vars

(***************************************************************************)
(* The user actions.                                                       *)
(***************************************************************************)
\* the Connect button (line 339)
Connect ==
    /\ \E form \in Forms, answer \in ConnectAnswers :
        Step("connect", form, answer, "--", "", "", NoLlmAnswer, NoRunAnswer)

\* a new choice in the select box, which is drawn only when connected with
\* tables (lines 367-369)
SelectTable ==
    /\ selectbox_rendered(Current)
    /\ \E i \in 0..Len(tables) :
        LET choice == IF i = 0 THEN "--" ELSE tables[i]
        IN  /\ choice # sel_widget
            /\ Step("select", NoForm, NoConnAnswer, choice, "", "", NoLlmAnswer, NoRunAnswer)

\* a hand edit of the SQL editor (line 503)
EditSql ==
    /\ \E text \in EditTexts :
        /\ text # sql_preview
        /\ Step("edit", NoForm, NoConnAnswer, "--", text, "", NoLlmAnswer, NoRunAnswer)

\* the Generate SQL Query button, disabled without a table (lines 413-422)
Generate ==
    /\ selected_table # None
    /\ \E user_q \in Questions, answer \in LlmAnswers :
        Step("generate", NoForm, NoConnAnswer, "--", "", user_q, answer, NoRunAnswer)

\* the Retry button, absent without a table and disabled without a stored
\* error (lines 417 and 424)
Retry ==
    /\ selected_table # None
    /\ last_error # ""
    /\ \E answer \in LlmAnswers :
        Step("retry", NoForm, NoConnAnswer, "--", "", "", answer, NoRunAnswer)

\* the Run Query button (line 506)
RunQuery ==
    /\ \E answer \in RunAnswers :
        Step("run", NoForm, NoConnAnswer, "--", "", "", NoLlmAnswer, answer)

(***************************************************************************)
(* The pure functions on their own: the argument is drawn from the texts   *)
(* made of a few fragments, and one action applies the function.           *)
(***************************************************************************)
\* the concatenations of at most n fragments
RECURSIVE Texts(_, _)
Texts(frags, n) ==
    IF n = 0 THEN {""}
    ELSE Texts(frags, n - 1) \cup { t \o f : t \in Texts(frags, n - 1), f \in frags }

GateFrags ==
    { forbidden[k] : k \in 1..Len(forbidden) }
    \cup { "select", "SeLect ", " ", "x", "DRop" }
GateInputs == Texts(GateFrags, MaxGateFrags)

RawFrags == { "SELECT", "sel", "ect", " ", ";", Fence, Fence \o "sql", "\n", "x" }
RawInputs == Texts(RawFrags, MaxRawFrags)

InitGate ==
    /\ state_defaults
    /\ sel_widget = "--"
    /\ NoCalls
    /\ fn_arg \in GateInputs
    /\ fn_ret = None

ApplyGate ==
    /\ fn_ret = None
    /\ fn_ret' = Some(safe_sql_check(fn_arg))
    /\ act' = "safe_sql_check"
    /\ UNCHANGED <<session, sel_widget, asked, gate_call, run_call, llm_call, hist_vars, fn_arg>>

SpecGate == InitGate /\ [][ApplyGate]_vars

InitExtract ==
    /\ state_defaults
    /\ sel_widget = "--"
    /\ NoCalls
    /\ fn_arg \in RawInputs
    /\ fn_ret = None

ApplyExtract ==
    /\ fn_ret = None
    /\ fn_ret' = Some(extract_sql(fn_arg))
    /\ act' = "extract_sql"
    /\ UNCHANGED <<session, sel_widget, asked, gate_call, run_call, llm_call, hist_vars, fn_arg>>

SpecExtract == InitExtract /\ [][ApplyExtract]_vars

Next == Connect \/ SelectTable \/ EditSql \/ Generate \/ Retry \/ RunQuery

Spec == Init /\ [][Next]_vars

(***************************************************************************)
(* Properties.                                                             *)
(***************************************************************************)
\* the text contains keyword number k of the denylist, in any case
HasForbidden(text, k) == Find(lower(text), forbidden[k], 1) # 0

\* the text starts with select once trimmed and lower-cased
SelectFirst(text) == startswith(strip(lower(text)), "select")

\* the reason that names a keyword
NamesKeyword(k) == "Forbidden keyword '" \o forbidden[k] \o "'."

\* C1: run_sql is called only in a Run Query rerun, once, with the trimmed
\* editor text that safe_sql_check accepted in that rerun; so the statement
\* starts with select and contains no keyword of the denylist.
C1_OnlyVettedSelectRuns ==
    run_call # <<>> =>
        /\ act = "run"
        /\ Len(run_call) = 1
        /\ Len(gate_call) = 1
        /\ gate_call[1].ok
        /\ gate_call[1].sql = run_call[1].sql
        /\ run_call[1].sql = strip(sql_preview)
        /\ SelectFirst(run_call[1].sql)
        /\ \A k \in 1..Len(forbidden) : ~HasForbidden(run_call[1].sql, k)

\* a query reached run_sql from an editor text that needed trimming
C1_Witness ==
    /\ act = "run"
    /\ run_call # <<>>
    /\ run_call[1].sql # sql_preview

\* C2 as stated: every text containing a keyword W of the denylist is
\* rejected with the reason that names W.
C2_Original ==
    fn_ret # None =>
        \A k \in 1..Len(forbidden) :
            HasForbidden(fn_arg, k) => fn_ret[1] = <<FALSE, NamesKeyword(k)>>

\* C2 amended: every text containing a keyword W of the denylist is
\* rejected; the reason is "Only SELECT allowed." when the text does not
\* start with select, and otherwise names the first keyword, in the order of
\* the denylist, that the text contains (W when none before it occurs).
C2_RejectsForbidden ==
    fn_ret # None =>
        \A k \in 1..Len(forbidden) :
            HasForbidden(fn_arg, k) =>
                /\ fn_ret[1][1] = FALSE
                /\ ~SelectFirst(fn_arg) => fn_ret[1][2] = "Only SELECT allowed."
                /\ (SelectFirst(fn_arg) /\ \A j \in 1..(k - 1) : ~HasForbidden(fn_arg, j))
                       => fn_ret[1][2] = NamesKeyword(k)

\* a select that contains the last keyword of the list and an earlier one
C2_Witness ==
    /\ fn_ret # None
    /\ SelectFirst(fn_arg)
    /\ HasForbidden(fn_arg, Len(forbidden))
    /\ HasForbidden(fn_arg, 3)
    /\ fn_ret[1] = <<FALSE, NamesKeyword(3)>>

\* C3 as stated: every text that does not start with select is rejected
\* with the reason "Only SELECT allowed.".
C3_Original ==
    (fn_ret # None /\ ~SelectFirst(fn_arg)) => fn_ret[1] = <<FALSE, "Only SELECT allowed.">>

\* C3 amended: every text that is not empty after trimming and does not
\* start with select is rejected with the reason "Only SELECT allowed."; an
\* empty or blank text is rejected with "SQL empty.".
C3_OnlySelect ==
    (fn_ret # None /\ ~SelectFirst(fn_arg)) =>
        fn_ret[1] = IF strip(fn_arg) = "" THEN <<FALSE, "SQL empty.">>
                    ELSE <<FALSE, "Only SELECT allowed.">>

\* a text with a forbidden keyword, but not a select, was checked
C3_Witness ==
    /\ fn_ret # None
    /\ strip(fn_arg) # ""
    /\ ~SelectFirst(fn_arg)
    /\ HasForbidden(fn_arg, 1)
    /\ fn_ret[1] = <<FALSE, "Only SELECT allowed.">>

\* the question of this Generate matches (top|first)\s+(\d+)
TopNAsked == act = "generate" /\ selected_table # None /\ detect_top_n(asked) # None

\* C4 as stated: a Generate whose question matches the pattern, with a
\* table selected, sets the generated SQL to the LIMIT N query of the table
\* (compared word by word, the editor shows it reindented) and does not
\* call the LLM.
C4_Original ==
    TopNAsked =>
        /\ llm_call = <<>>
        /\ SqlWords(generated_sql)
             = SqlWords(top_n_sql(selected_table[1], detect_top_n(asked)[1]))

\* the words of the fallback query of the table
StubWords(table) == <<"SELECT", "*", "FROM", BT \o table \o BT, "LIMIT", "100;">>

\* the LLM was called in the last rerun and gave no SQL (an endpoint error
\* or nothing to extract)
LlmGaveNothing == llm_call # <<>> /\ llm_call[1].sql = ""

\* C5 as stated: after a Generate or Retry whose LLM call gave no SQL the
\* generated SQL and the editor hold the fallback query of the selected
\* table (compared word by word).
C5_Original ==
    (act \in {"generate", "retry"} /\ LlmGaveNothing) =>
        /\ SqlWords(generated_sql) = StubWords(selected_table[1])
        /\ SqlWords(sql_preview) = StubWords(selected_table[1])

\* C5 amended: a Generate whose LLM call gave no SQL sets the generated SQL
\* and the editor to the fallback query as pretty_sql prints it, on three
\* lines; a Retry whose LLM call gave no SQL leaves both as they were.
C5_FallbackOnGenerate ==
    [][ /\ (act' = "generate" /\ LlmGaveNothing') =>
            /\ generated_sql' = "SELECT *\nFROM " \o BT \o selected_table'[1] \o BT \o "\nLIMIT 100;"
            /\ sql_preview' = generated_sql'
        /\ (act' = "retry" /\ LlmGaveNothing') =>
            /\ generated_sql' = generated_sql
            /\ sql_preview' = sql_preview ]_vars

\* a Retry got nothing from the LLM while the editor held another query
C5_Witness ==
    /\ act = "retry"
    /\ LlmGaveNothing
    /\ SqlWords(sql_preview) # StubWords(selected_table[1])
    /\ generated_sql # ""

\* C6 as stated: extract_sql returns unchanged every text that starts with
\* SELECT in any case, ends with ';' and contains no fence marker.
C6_Original ==
    (/\ fn_ret # None
     /\ startswith(lower(fn_arg), "select")
     /\ endswith(fn_arg, ";")
     /\ Find(fn_arg, Fence, 1) = 0) => fn_ret[1] = fn_arg

\* C6 amended: extract_sql returns unchanged every text that starts with
\* SELECT in any case, contains no fence marker, ends with ';' and has no
\* other ';'.
C6_Idempotent ==
    (/\ fn_ret # None
     /\ startswith(lower(fn_arg), "select")
     /\ endswith(fn_arg, ";")
     /\ Find(fn_arg, ";", 1) = Len(fn_arg)
     /\ Find(fn_arg, Fence, 1) = 0) => fn_ret[1] = fn_arg

\* a lower-case statement came back unchanged
C6_Witness ==
    /\ fn_ret # None
    /\ startswith(fn_arg, "select")
    /\ endswith(fn_arg, ";")
    /\ Find(fn_arg, ";", 1) = Len(fn_arg)
    /\ fn_ret[1] = fn_arg

\* the result is empty or a statement from SELECT to ';'
SelectShaped(text) == text = "" \/ (startswith(lower(text), "select") /\ endswith(text, ";"))

\* C7 as stated: the result of extract_sql is empty or starts with SELECT
\* and ends with ';', and it is empty when the input contains no SELECT.
C7_Original ==
    fn_ret # None =>
        /\ SelectShaped(fn_ret[1])
        /\ Find(lower(fn_arg), "select", 1) = 0 => fn_ret[1] = ""

\* C7 amended: the result of extract_sql is empty or starts with SELECT and
\* ends with ';', and it is empty exactly when the input, once its fence
\* markers are removed, does not contain the letters SELECT in any case.
C7_Shape ==
    fn_ret # None =>
        /\ SelectShaped(fn_ret[1])
        /\ (Find(lower(without_fences(fn_arg)), "select", 1) = 0) <=> (fn_ret[1] = "")

\* a statement without ';' in the input came back closed by one
C7_Witness ==
    /\ fn_ret # None
    /\ Find(fn_arg, ";", 1) = 0
    /\ fn_ret[1] # ""
    /\ Len(fn_ret[1]) > Len("select;")

\* C8: call_llm is called only in a Generate or Retry rerun, and once.
C8_NoAutomaticRetry ==
    llm_call # <<>> => (act \in {"generate", "retry"} /\ Len(llm_call) = 1)

\* a Run Query failed with everything a retry needs at hand, and no
\* generation was started
C8_Witness ==
    /\ act = "run"
    /\ last_error # ""
    /\ last_question # ""
    /\ selected_table # None
    /\ llm_call = <<>>

\* C9: a Retry that calls the LLM passes the error stored by the most
\* recent Run Query, which was blocked or failed, and the question of the
\* last Generate with a question, and no such Generate came after that Run
\* Query; without such a pending failure no error is stored.
C9_RetryContext ==
    /\ (act = "retry" /\ llm_call # <<>>) =>
            /\ hist_run # None
            /\ hist_run[1] # ""
            /\ ~hist_gen_since
            /\ llm_call[1].retry_error = hist_run[1]
            /\ hist_question # None
            /\ llm_call[1].question = hist_question[1]
    /\ (hist_run = None \/ hist_run[1] = "" \/ hist_gen_since) => last_error = ""
    /\ (act = "retry" /\ llm_call = <<>>) => last_question = ""

\* a Retry passed on the reason of a blocked Run Query
C9_Witness ==
    /\ act = "retry"
    /\ llm_call # <<>>
    /\ llm_call[1].retry_error = "Only SELECT allowed."

\* C10 as stated: a selected table implies a successful connection,
\* credentials and membership in the table list; after every Connect no
\* table is selected; after a failed Connect the table list is empty.
C10_Original ==
    /\ selected_table # None =>
            /\ connection_status = Some("success")
            /\ db_credentials # None
            /\ \E i \in 1..Len(tables) : tables[i] = selected_table[1]
    /\ act = "connect" => selected_table = None
    /\ (act = "connect" /\ connection_status = Some("error")) => tables = <<>>

====
